---- MODULE Spec2Model ----
(***************************************************************************)
(* Radiology AI dashboard (src/src/App.js): the article pipeline           *)
(* (fetch, normalise, filter, classify, merge, aggregate) and the refresh  *)
(* scheduler with its localStorage cache.                                  *)
(*                                                                         *)
(* Strings that the code searches with includes() are sequences of         *)
(* one-character strings, so toLowerCase and includes are computed         *)
(* character by character.  Times are whole hours.                         *)
(***************************************************************************)
EXTENDS Integers, Sequences, FiniteSets, TLC

VARIABLES
  phase,              \* mount position of App: "effects", "initialize", "ready"
  articles,           \* useState articles
  subdomainStats,     \* useState subdomainStats
  loading,            \* useState loading
  error,              \* useState error
  lastRefresh,        \* useState lastRefresh
  handlerLastRefresh, \* lastRefresh captured by the registered checkAndRefresh
  localStorage,       \* window.localStorage: key -> stored JSON value
  runs,               \* fetchArticles calls awaiting Promise.all, per caller
  stalled,            \* fetchArticles calls whose Promise.all never settles
  lastRun,            \* what the fetchArticles call that finished last met
  now,                \* wall clock (Date.now()), in hours
  input,              \* argument of the function under test
  output              \* its result, NotRun before the call

appVars == <<phase, articles, subdomainStats, loading, error, lastRefresh,
             handlerLastRefresh, localStorage, runs, stalled, lastRun, now>>

callVars == <<input, output>>

vars == <<phase, articles, subdomainStats, loading, error, lastRefresh,
          handlerLastRefresh, localStorage, runs, stalled, lastRun, now,
          input, output>>

-----------------------------------------------------------------------------
(* JavaScript strings                                                      *)

LowerOf ==
  [A |-> "a", B |-> "b", C |-> "c", D |-> "d", E |-> "e", F |-> "f", G |-> "g", H |-> "h", I |-> "i", J |-> "j", K |-> "k", L |-> "l", M |-> "m", N |-> "n", O |-> "o", P |-> "p", Q |-> "q", R |-> "r", S |-> "s", T |-> "t", U |-> "u", V |-> "v", W |-> "w", X |-> "x", Y |-> "y", Z |-> "z"]

\* Body applied to the value of v.  A LET name or an operator argument
\* stands for its expression wherever it is used; Bind evaluates it once.
Bind(v, Body(_)) == CHOOSE r \in {Body(x) : x \in {v}} : TRUE

toLowerCase(s) ==
  [i \in 1..Len(s) |-> IF s[i] \in DOMAIN LowerOf THEN LowerOf[s[i]] ELSE s[i]]

\* String.prototype.includes
includes(text, kw) ==
  Bind(<<text, kw>>,
       LAMBDA s : \E i \in 0..(Len(s[1]) - Len(s[2])) :
                    SubSeq(s[1], i + 1, i + Len(s[2])) = s[2])

\* Array.prototype.some over a sequence
some(seq, P(_)) == \E i \in 1..Len(seq) : P(seq[i])

Space == <<" ">>

\* JavaScript truthiness of a text field: present and not the empty string
Truthy(obj, field) == field \in DOMAIN obj /\ obj[field] # <<>>

-----------------------------------------------------------------------------
(* Configuration tables                                                    *)

radiologySubdomains ==
  << [name |-> "Neuroradiology",
      keywords |-> <<<<"b","r","a","i","n">>,
                    <<"n","e","u","r","o","l","o","g","i","c","a","l">>,
                    <<"s","p","i","n","e">>,
                    <<"h","e","a","d">>,
                    <<"n","e","c","k">>,
                    <<"n","e","u","r","a","l">>,
                    <<"n","e","u","r","o">>>>],
     [name |-> "Chest/Cardiac",
      keywords |-> <<<<"c","h","e","s","t">>,
                    <<"l","u","n","g">>,
                    <<"c","a","r","d","i","a","c">>,
                    <<"h","e","a","r","t">>,
                    <<"t","h","o","r","a","c","i","c">>,
                    <<"p","u","l","m","o","n","a","r","y">>,
                    <<"c","a","r","d","i","o","v","a","s","c","u","l","a","r">>>>],
     [name |-> "Abdominal",
      keywords |-> <<<<"a","b","d","o","m","e","n">>,
                    <<"l","i","v","e","r">>,
                    <<"p","a","n","c","r","e","a","s">>,
                    <<"g","a","s","t","r","o","i","n","t","e","s","t","i","n","a","l">>,
                    <<"g","i">>,
                    <<"a","b","d","o","m","i","n","a","l">>>>],
     [name |-> "Musculoskeletal",
      keywords |-> <<<<"m","u","s","c","u","l","o","s","k","e","l","e","t","a","l">>,
                    <<"b","o","n","e">>,
                    <<"j","o","i","n","t">>,
                    <<"o","r","t","h","o","p","e","d","i","c">>,
                    <<"m","s","k">>,
                    <<"s","k","e","l","e","t","a","l">>>>],
     [name |-> "Breast",
      keywords |-> <<<<"b","r","e","a","s","t">>,
                    <<"m","a","m","m","o","g","r","a","p","h","y">>,
                    <<"m","a","m","m","o","g","r","a","m">>,
                    <<"m","a","m","m","o","g","r","a","p","h","i","c">>>>],
     [name |-> "Nuclear/Molecular",
      keywords |-> <<<<"n","u","c","l","e","a","r">>,
                    <<"p","e","t">>,
                    <<"m","o","l","e","c","u","l","a","r">>,
                    <<"s","p","e","c","t">>,
                    <<"r","a","d","i","o","i","s","o","t","o","p","e">>>>],
     [name |-> "General/Other",
      keywords |-> <<>>] >>

CLINICAL_RADIOLOGY_JOURNALS ==
  << <<"R","a","d","i","o","l","o","g","y">>,
     <<"E","u","r","o","p","e","a","n"," ","R","a","d","i","o","l","o","g","y">>,
     <<"A","m","e","r","i","c","a","n"," ","J","o","u","r","n","a","l"," ","o","f"," ","R","o","e","n","t","g","e","n","o","l","o","g","y">>,
     <<"E","u","r","o","p","e","a","n"," ","J","o","u","r","n","a","l"," ","o","f"," ","R","a","d","i","o","l","o","g","y">>,
     <<"A","c","a","d","e","m","i","c"," ","R","a","d","i","o","l","o","g","y">>,
     <<"J","o","u","r","n","a","l"," ","o","f"," ","D","i","g","i","t","a","l"," ","I","m","a","g","i","n","g">>,
     <<"C","l","i","n","i","c","a","l"," ","R","a","d","i","o","l","o","g","y">>,
     <<"B","r","i","t","i","s","h"," ","J","o","u","r","n","a","l"," ","o","f"," ","R","a","d","i","o","l","o","g","y">>,
     <<"R","a","d","i","o","g","r","a","p","h","i","c","s">>,
     <<"J","o","u","r","n","a","l"," ","o","f"," ","t","h","e"," ","A","m","e","r","i","c","a","n"," ","C","o","l","l","e","g","e"," ","o","f"," ","R","a","d","i","o","l","o","g","y">>,
     <<"I","n","v","e","s","t","i","g","a","t","i","v","e"," ","R","a","d","i","o","l","o","g","y">>,
     <<"A","b","d","o","m","i","n","a","l"," ","R","a","d","i","o","l","o","g","y">>,
     <<"N","e","u","r","o","r","a","d","i","o","l","o","g","y">>,
     <<"P","e","d","i","a","t","r","i","c"," ","R","a","d","i","o","l","o","g","y">>,
     <<"C","a","r","d","i","o","V","a","s","c","u","l","a","r"," ","a","n","d"," ","I","n","t","e","r","v","e","n","t","i","o","n","a","l"," ","R","a","d","i","o","l","o","g","y">>,
     <<"E","m","e","r","g","e","n","c","y"," ","R","a","d","i","o","l","o","g","y">> >>

aiKeywords ==
  << <<"a","r","t","i","f","i","c","i","a","l"," ","i","n","t","e","l","l","i","g","e","n","c","e">>,
     <<"m","a","c","h","i","n","e"," ","l","e","a","r","n","i","n","g">>,
     <<"d","e","e","p"," ","l","e","a","r","n","i","n","g">>,
     <<"n","e","u","r","a","l"," ","n","e","t","w","o","r","k">> >>

imagingKeywords ==
  << <<"i","m","a","g","i","n","g">>,
     <<"r","a","d","i","o","l","o","g","y">>,
     <<"r","a","d","i","o","l","o","g","i","c","a","l">>,
     <<"r","a","d","i","o","g","r","a","p","h","i","c">> >>

nonClinicalIndicators ==
  << <<"l","e","t","t","e","r"," ","t","o"," ","e","d","i","t","o","r">>,
     <<"e","d","i","t","o","r","i","a","l">>,
     <<"e","r","r","a","t","u","m">>,
     <<"r","e","t","r","a","c","t","i","o","n">> >>

-----------------------------------------------------------------------------
(* Dates                                                                   *)

\* The date strings the upstream summaries carry, and what new Date(str)
\* makes of each: a time in hours, or an Invalid Date.
InvalidDate == [valid |-> FALSE, t |-> 0]

DateOf(t) == [valid |-> TRUE, t |-> t]

NewDate(str) ==
  CASE str = "2024 Jan 15"      -> DateOf(-48)
    [] str = "2024/01/10 00:00" -> DateOf(-168)
    [] str = "2024 Jan 02"      -> DateOf(-360)
    [] OTHER                    -> InvalidDate

\* a date field that is present and not the empty string
TruthyDate(obj, field) == field \in DOMAIN obj /\ obj[field] # ""

-----------------------------------------------------------------------------
(* Helpers of App.js                                                       *)

retries == 3

\* fetchWithRetry waiting 2000 ms after every failure
fetchWithRetryFixedDelay(failures) ==
  IF failures >= retries
    THEN [threw |-> TRUE, attempts |-> retries,
          delays |-> [k \in 1..(retries - 1) |-> 2000], resolved |-> FALSE]
    ELSE [threw |-> FALSE, attempts |-> failures + 1,
          delays |-> [k \in 1..failures |-> 2000] \o <<1500>>, resolved |-> TRUE]

\* fetchWithRetry, for a request whose first `failures` attempts fail:
\* the attempts made, the delays waited (ms), and whether the last error is
\* rethrown.
RECURSIVE fetchWithRetryFrom(_, _, _)
fetchWithRetryFrom(i, failures, delays) ==
  IF i >= retries
    THEN [threw |-> FALSE, attempts |-> i, delays |-> delays, resolved |-> FALSE]
    ELSE IF i >= failures
      THEN [threw |-> FALSE, attempts |-> i + 1,
            delays |-> Append(delays, 1500), resolved |-> TRUE]
      ELSE IF i = retries - 1
        THEN [threw |-> TRUE, attempts |-> i + 1, delays |-> delays,
              resolved |-> FALSE]
        ELSE fetchWithRetryFrom(i + 1, failures, Append(delays, 2000 * (2 ^ i)))

fetchWithRetry(failures) == fetchWithRetryFrom(0, failures, <<>>)

articleText(article) ==
  toLowerCase(article.title \o Space \o article.abstract)

\* categorizeArticle: the first subdomain, in table order, one of whose
\* keywords occurs in the text
RECURSIVE categorizeFrom(_, _)
categorizeFrom(k, text) ==
  IF k > Len(radiologySubdomains)
    THEN "General/Other"
    ELSE IF some(radiologySubdomains[k].keywords, LAMBDA kw : includes(text, kw))
      THEN radiologySubdomains[k].name
      ELSE categorizeFrom(k + 1, text)

\* categorizeArticle with another label for the article no keyword matches
categorizeArticleUncategorized(article) ==
  Bind(articleText(article),
       LAMBDA text :
         Bind(categorizeFrom(1, text),
              LAMBDA found : IF found = "General/Other" THEN "Uncategorized" ELSE found))

\* categorizeArticle taking the last subdomain that matches, not the first
categorizeArticleLastMatch(article) ==
  Bind(articleText(article),
       LAMBDA text :
         LET matching == {k \in DOMAIN radiologySubdomains :
                            some(radiologySubdomains[k].keywords,
                                 LAMBDA kw : includes(text, kw))}
         IN  IF matching = {} THEN "General/Other"
             ELSE radiologySubdomains[CHOOSE k \in matching :
                                        \A j \in matching : j <= k].name)

categorizeArticle(article) ==
  Bind(articleText(article), LAMBDA text : categorizeFrom(1, text))

\* isClinicalPaper reads article.journal.toLowerCase(): a TypeError when the
\* article has no journal field
isClinicalPaperThrows(article) == "journal" \notin DOMAIN article

journalAllowed(article) ==
  some(CLINICAL_RADIOLOGY_JOURNALS,
       LAMBDA journal : includes(toLowerCase(article.journal), toLowerCase(journal)))

hasAI(text) == some(aiKeywords, LAMBDA kw : includes(text, kw))

hasImaging(text) == some(imagingKeywords, LAMBDA kw : includes(text, kw))

isNonClinical(text) == some(nonClinicalIndicators, LAMBDA term : includes(text, term))

\* isClinicalPaper with one kind of keyword taken as enough
isClinicalPaperAnyKeyword(article) ==
  IF ~journalAllowed(article)
    THEN FALSE
    ELSE Bind(articleText(article),
              LAMBDA text : (hasAI(text) \/ hasImaging(text)) /\ ~isNonClinical(text))

\* isClinicalPaper with the exclusion terms left out
isClinicalPaperNoExclusion(article) ==
  IF ~journalAllowed(article)
    THEN FALSE
    ELSE Bind(articleText(article),
              LAMBDA text : hasAI(text) /\ hasImaging(text))

isClinicalPaper(article) ==
  IF ~journalAllowed(article)
    THEN FALSE
    ELSE Bind(articleText(article),
              LAMBDA text : hasAI(text) /\ hasImaging(text) /\ ~isNonClinical(text))

\* processArticle(item, now): the date it resolves, before toISOString
pubDateOf(item, nowT) ==
  LET pubDateStr == IF TruthyDate(item, "pubdate") THEN item.pubdate
                    ELSE IF "sortpubdate" \in DOMAIN item THEN item.sortpubdate
                    ELSE ""
  IN  IF pubDateStr # "" THEN NewDate(pubDateStr) ELSE DateOf(nowT)

\* Date.prototype.toISOString throws a RangeError on an Invalid Date
processArticleThrows(item, nowT) == ~pubDateOf(item, nowT).valid

metadataOf(item, nowT) ==
  [title           |-> IF Truthy(item, "title") THEN item.title
                       ELSE <<"N","o"," ","T","i","t","l","e">>,
   abstract        |-> IF Truthy(item, "abstract") THEN item.abstract ELSE <<>>,
   authors         |-> IF "authors" \in DOMAIN item
                       THEN [i \in 1..Len(item.authors) |-> item.authors[i].name]
                       ELSE <<>>,
   journal         |-> IF Truthy(item, "fulljournalname")
                       THEN item.fulljournalname ELSE <<>>,
   publicationDate |-> pubDateOf(item, nowT).t,
   link            |-> item.uid]

Null == [null |-> TRUE]

processArticle(item, nowT) ==
  Bind(metadataOf(item, nowT),
       LAMBDA metadata : IF isClinicalPaper(metadata) THEN metadata ELSE Null)

-----------------------------------------------------------------------------
(* The upstream: PubMed records, search responses, Google Scholar pages    *)

\* esummary records by uid: 1 and 2 are clinical AI papers, 3 carries a
\* pubdate that does not parse, 4 has the title of 1 in capitals and no date,
\* 5 is from a journal that is not on the list, 6 to 11 are further clinical
\* AI papers.
RawItems ==
  << [uid |-> 1,
      title |-> <<"D","e","e","p"," ","L","e","a","r","n","i","n","g"," ","f","o","r"," ","C","h","e","s","t"," ","C","T">>,
      abstract |-> <<"l","u","n","g"," ","n","o","d","u","l","e"," ","i","m","a","g","i","n","g">>,
      fulljournalname |-> <<"R","a","d","i","o","l","o","g","y">>,
      pubdate |-> "2024 Jan 15",
      authors |-> <<[name |-> "A"], [name |-> "B"]>>],
     [uid |-> 2,
      title |-> <<"M","a","c","h","i","n","e"," ","l","e","a","r","n","i","n","g"," ","b","r","a","i","n"," ","M","R","I">>,
      abstract |-> <<"r","a","d","i","o","l","o","g","y"," ","w","o","r","k","f","l","o","w">>,
      fulljournalname |-> <<"E","u","r","o","p","e","a","n"," ","R","a","d","i","o","l","o","g","y">>,
      sortpubdate |-> "2024/01/10 00:00",
      authors |-> <<[name |-> "C"]>>],
     [uid |-> 3,
      title |-> <<"N","e","u","r","a","l"," ","n","e","t","w","o","r","k"," ","l","i","v","e","r"," ","i","m","a","g","i","n","g">>,
      fulljournalname |-> <<"A","b","d","o","m","i","n","a","l"," ","R","a","d","i","o","l","o","g","y">>,
      pubdate |-> "2024 Spring",
      sortpubdate |-> "2024 Jan 02"],
     [uid |-> 4,
      title |-> <<"D","E","E","P"," ","L","E","A","R","N","I","N","G"," ","F","O","R"," ","C","H","E","S","T"," ","C","T">>,
      abstract |-> <<"i","m","a","g","i","n","g">>,
      fulljournalname |-> <<"A","c","a","d","e","m","i","c"," ","R","a","d","i","o","l","o","g","y">>],
     [uid |-> 5,
      title |-> <<"D","e","e","p"," ","l","e","a","r","n","i","n","g"," ","i","m","a","g","i","n","g">>,
      abstract |-> <<>>,
      fulljournalname |-> <<"N","a","t","u","r","e"," ","M","e","d","i","c","i","n","e">>,
      pubdate |-> "2024 Jan 02"],
     [uid |-> 6,
      title |-> <<"D","e","e","p"," ","l","e","a","r","n","i","n","g"," ","k","n","e","e"," ","i","m","a","g","i","n","g">>,
      abstract |-> <<>>,
      fulljournalname |-> <<"R","a","d","i","o","l","o","g","y">>,
      pubdate |-> "2024 Jan 02"],
     [uid |-> 7,
      title |-> <<"D","e","e","p"," ","l","e","a","r","n","i","n","g"," ","s","p","i","n","e"," ","i","m","a","g","i","n","g">>,
      abstract |-> <<>>,
      fulljournalname |-> <<"R","a","d","i","o","l","o","g","y">>,
      pubdate |-> "2024 Jan 02"],
     [uid |-> 8,
      title |-> <<"D","e","e","p"," ","l","e","a","r","n","i","n","g"," ","l","i","v","e","r"," ","i","m","a","g","i","n","g">>,
      abstract |-> <<>>,
      fulljournalname |-> <<"R","a","d","i","o","l","o","g","y">>,
      pubdate |-> "2024 Jan 02"],
     [uid |-> 9,
      title |-> <<"D","e","e","p"," ","l","e","a","r","n","i","n","g"," ","h","e","a","r","t"," ","i","m","a","g","i","n","g">>,
      abstract |-> <<>>,
      fulljournalname |-> <<"R","a","d","i","o","l","o","g","y">>,
      pubdate |-> "2024 Jan 02"],
     [uid |-> 10,
      title |-> <<"D","e","e","p"," ","l","e","a","r","n","i","n","g"," ","b","r","e","a","s","t"," ","i","m","a","g","i","n","g">>,
      abstract |-> <<>>,
      fulljournalname |-> <<"R","a","d","i","o","l","o","g","y">>,
      pubdate |-> "2024 Jan 02"],
     [uid |-> 11,
      title |-> <<"D","e","e","p"," ","l","e","a","r","n","i","n","g"," ","k","i","d","n","e","y"," ","i","m","a","g","i","n","g">>,
      abstract |-> <<>>,
      fulljournalname |-> <<"R","a","d","i","o","l","o","g","y">>,
      pubdate |-> "2024 Jan 02"] >>

Uids == 1..Len(RawItems)

NumSearchTerms == 3

BatchSize == 5

Min(a, b) == IF a < b THEN a ELSE b

RECURSIVE Ascending(_)
Ascending(S) ==
  IF S = {} THEN <<>>
  ELSE LET m == CHOOSE x \in S : \A y \in S : x <= y
       IN  <<m>> \o Ascending(S \ {m})

\* Object.values(detailsResponse.data.result).filter(item => item?.uid):
\* the records of the batch; an object lists integer keys in ascending order
summaryItems(batchIds) ==
  LET order == Ascending({batchIds[i] : i \in DOMAIN batchIds})
  IN  [i \in 1..Len(order) |-> RawItems[order[i]]]

\* the forEach over one esummary response; a throw of processArticle leaves it
RECURSIVE processItems(_, _, _, _)
processItems(items, k, acc, nowT) ==
  IF k > Len(items)
    THEN [threw |-> FALSE, articles |-> acc]
    ELSE IF processArticleThrows(items[k], nowT)
      THEN [threw |-> TRUE, articles |-> acc]
      ELSE Bind(processArticle(items[k], nowT),
                LAMBDA processedArticle :
                  Bind(IF processedArticle # Null
                         THEN Append(acc, processedArticle) ELSE acc,
                       LAMBDA pushed : processItems(items, k + 1, pushed, nowT)))

\* the batch loop of one search term, from index i of its idlist;
\* requests collects the id lists sent to esummary
RECURSIVE fetchBatches(_, _, _, _, _)
fetchBatches(resp, i, acc, requests, nowT) ==
  IF i >= Len(resp.idlist)
    THEN [threw |-> FALSE, articles |-> acc, requests |-> requests]
    ELSE LET batchIds == SubSeq(resp.idlist, i + 1,
                                Min(i + BatchSize, Len(resp.idlist)))
             sent == Append(requests, batchIds)
         IN  IF fetchWithRetry(resp.summary).threw
               THEN [threw |-> TRUE, articles |-> acc, requests |-> sent]
               ELSE Bind(<<processItems(summaryItems(batchIds), 1, acc, nowT), sent>>,
                         LAMBDA d :
                           IF d[1].threw
                             THEN [threw |-> TRUE, articles |-> d[1].articles,
                                   requests |-> d[2]]
                             ELSE fetchBatches(resp, i + BatchSize, d[1].articles,
                                               d[2], nowT))

\* the loop over searchTerms; up[term] is what the upstream answers for it
RECURSIVE fetchTerms(_, _, _, _, _)
fetchTerms(up, term, acc, requests, nowT) ==
  IF term > Len(up)
    THEN [threw |-> FALSE, articles |-> acc, requests |-> requests]
    ELSE IF fetchWithRetry(up[term].search).threw
      THEN [threw |-> TRUE, articles |-> acc, requests |-> requests]
      ELSE Bind(fetchBatches(up[term], 0, acc, requests, nowT),
                LAMBDA done :
                  IF done.threw THEN done
                  ELSE fetchTerms(up, term + 1, done.articles, done.requests, nowT))

pubMedRun(up, nowT) == fetchTerms(up, 1, <<>>, <<>>, nowT)

\* fetchPubMedArticles: the catch returns []
fetchPubMedArticles(up, nowT) ==
  Bind(pubMedRun(up, nowT), LAMBDA run : IF run.threw THEN <<>> ELSE run.articles)

\* the article fetchGoogleScholar builds from one .gs_r element
\* the article of fetchGoogleScholar with a journal property added
scholarArticleWithJournal(element, nowT) ==
  [title           |-> element.title,
   authors         |-> element.authors,
   abstract        |-> element.abstract,
   journal         |-> <<"R","a","d","i","o","l","o","g","y">>,
   link            |-> element.link,
   citations       |-> element.citations,
   publicationDate |-> nowT,
   source          |-> "Google Scholar"]

scholarArticle(element, nowT) ==
  [title           |-> element.title,
   authors         |-> element.authors,
   abstract        |-> element.abstract,
   link            |-> element.link,
   citations       |-> element.citations,
   publicationDate |-> nowT,
   source          |-> "Google Scholar"]

RECURSIVE scholarEach(_, _, _, _)
scholarEach(results, k, acc, nowT) ==
  IF k > Len(results)
    THEN [threw |-> FALSE, articles |-> acc]
    ELSE Bind(scholarArticle(results[k], nowT),
              LAMBDA article :
                IF isClinicalPaperThrows(article)
                  THEN [threw |-> TRUE, articles |-> acc]
                  ELSE Bind(IF isClinicalPaper(article)
                              THEN Append(acc, article) ELSE acc,
                            LAMBDA pushed : scholarEach(results, k + 1, pushed, nowT)))

scholarRun(page, nowT) ==
  IF ~page.ok
    THEN [threw |-> TRUE, articles |-> <<>>]
    ELSE scholarEach(page.results, 1, <<>>, nowT)

\* fetchGoogleScholar: the catch returns []
fetchGoogleScholar(page, nowT) ==
  Bind(scholarRun(page, nowT), LAMBDA run : IF run.threw THEN <<>> ELSE run.articles)

-----------------------------------------------------------------------------
(* Merge of the two sources (fetchArticles) and the statistics             *)

\* first.replace(/\s+/g, '')
stripSpaces(s) == SelectSeq(s, LAMBDA c : c # " ")

\* the Map of the first string's bigrams to their counts
firstBigrams(first) ==
  LET at(i) == <<first[i], first[i + 1]>>
      all   == {at(i) : i \in 1..(Len(first) - 1)}
  IN  [b \in all |-> Cardinality({i \in 1..(Len(first) - 1) : at(i) = b})]

\* the loop over the second string's bigrams, each hit using up one count
RECURSIVE intersectionSize(_, _, _)
intersectionSize(counts, second, i) ==
  IF i > Len(second) - 1 THEN 0
  ELSE LET bigram == <<second[i], second[i + 1]>>
       IN  IF bigram \in DOMAIN counts /\ counts[bigram] > 0
             THEN 1 + intersectionSize([counts EXCEPT ![bigram] = @ - 1],
                                       second, i + 1)
             ELSE intersectionSize(counts, second, i + 1)

\* compareTwoStrings with the bigrams of the first string alone as the
\* denominator: the share of the first string found in the second
compareTwoStringsByFirst(a, b) ==
  Bind(<<stripSpaces(a), stripSpaces(b)>>,
       LAMBDA s :
         LET first  == s[1]
             second == s[2]
         IN  IF first = second THEN [num |-> 1, den |-> 1]
             ELSE IF Len(first) < 2 \/ Len(second) < 2 THEN [num |-> 0, den |-> 1]
             ELSE [num |-> 2 * Bind(firstBigrams(first),
                                    LAMBDA counts : intersectionSize(counts, second, 1)),
                   den |-> 2 * (Len(first) - 1)])

\* stringSimilarity.compareTwoStrings (Dice coefficient of the bigrams), as
\* the fraction num / den
compareTwoStrings(a, b) ==
  Bind(<<stripSpaces(a), stripSpaces(b)>>,
       LAMBDA s :
         LET first  == s[1]
             second == s[2]
         IN  IF first = second THEN [num |-> 1, den |-> 1]
             ELSE IF Len(first) < 2 \/ Len(second) < 2 THEN [num |-> 0, den |-> 1]
             ELSE [num |-> 2 * Bind(firstBigrams(first),
                                    LAMBDA counts : intersectionSize(counts, second, 1)),
                   den |-> Len(first) + Len(second) - 2])

\* similarity > 0.8
isDuplicate(combined, scholar) ==
  some(combined,
       LAMBDA article :
         Bind(compareTwoStrings(toLowerCase(article.title),
                                toLowerCase(scholar.title)),
              LAMBDA sim : 5 * sim.num > 4 * sim.den))

RECURSIVE mergeScholar(_, _, _)
mergeScholar(combined, scholarArticles, k) ==
  IF k > Len(scholarArticles) THEN combined
  ELSE Bind(IF isDuplicate(combined, scholarArticles[k])
              THEN combined
              ELSE Append(combined, scholarArticles[k]),
            LAMBDA pushed : mergeScholar(pushed, scholarArticles, k + 1))

\* Array.prototype.sort with (a, b) => new Date(b.publicationDate) - new
\* Date(a.publicationDate): newest first, equal dates keep their order
RECURSIVE sortNewestFirst(_)
sortNewestFirst(list) ==
  IF list = <<>> THEN <<>>
  ELSE LET newest == CHOOSE i \in 1..Len(list) :
                       /\ \A j \in 1..Len(list) :
                            list[j].publicationDate <= list[i].publicationDate
                       /\ \A j \in 1..(i - 1) :
                            list[j].publicationDate < list[i].publicationDate
           others == [j \in 1..(Len(list) - 1) |->
                        IF j < newest THEN list[j] ELSE list[j + 1]]
       IN  <<list[newest]>> \o Bind(others, LAMBDA rest : sortNewestFirst(rest))

\* the value fetchArticles hands to setArticles
combineArticles(pubmedArticles, scholarArticles) ==
  Bind(<<pubmedArticles, scholarArticles>>,
       LAMBDA source :
         Bind(mergeScholar(source[1], source[2], 1),
              LAMBDA combined : sortNewestFirst(combined)))

\* updateStats: the object it hands to setSubdomainStats, as the sequence of
\* its entries [key, value] in the order the keys were first assigned
RECURSIVE statsFrom(_, _, _)
statsFrom(list, k, stats) ==
  IF k > Len(list) THEN stats
  ELSE Bind(categorizeArticle(list[k]),
            LAMBDA subdomain :
              Bind(IF \E i \in DOMAIN stats : stats[i].key = subdomain
                     THEN [i \in DOMAIN stats |->
                             IF stats[i].key = subdomain
                               THEN [key |-> subdomain, value |-> stats[i].value + 1]
                               ELSE stats[i]]
                     ELSE Append(stats, [key |-> subdomain, value |-> 1]),
                   LAMBDA counted : statsFrom(list, k + 1, counted)))

\* updateStats whose forEach leaves out the first article
statsOfSkippingFirst(list) == statsFrom(list, 2, <<>>)

statsOf(list) == statsFrom(list, 1, <<>>)

-----------------------------------------------------------------------------
(* App: state, cache and refresh scheduler                                 *)

CACHE_KEY == "radiology_ai_articles"

CACHE_DURATION == 24

MaxTime == 36

MaxRuns == 2

ClockSteps == {12}

NoError == "null"

NotRun == [run |-> FALSE]

\* calendar day of a time: getFullYear, getMonth and getDate together
Day(t) == t \div 24

\* an async function without a return statement resolves to undefined
fetchArticlesResult(combined) == [defined |-> FALSE]

\* JSON.stringify({timestamp, data}) leaves out a property that is undefined
cacheEntry(timestamp, data) ==
  IF data.defined THEN [timestamp |-> timestamp, data |-> data.value]
  ELSE [timestamp |-> timestamp]

\* getCachedArticles: what initializeArticles sees in `cached`.  A value is
\* returned only from a stored entry younger than CACHE_DURATION, and
\* `if (cached)` takes it only when it is not undefined.
getCachedArticles(storage, nowT) ==
  IF storage[CACHE_KEY] = <<>> THEN [hit |-> FALSE]
  ELSE LET entry == storage[CACHE_KEY][1]
       IN  IF nowT - entry.timestamp < CACHE_DURATION /\ "data" \in DOMAIN entry
             THEN [hit |-> TRUE, data |-> entry.data]
             ELSE [hit |-> FALSE]

\* the answers of PubMed to the search terms that App meets in a run
Response(search, idlist, summary) ==
  [search |-> search, idlist |-> idlist, summary |-> summary]

AppUpstreams ==
  << [t \in 1..NumSearchTerms |-> Response(retries, <<>>, 0)],
    [t \in 1..NumSearchTerms |-> Response(0, <<1>>, 0)],
    [t \in 1..NumSearchTerms |->
       IF t = 1 THEN Response(0, <<2, 1>>, 0) ELSE Response(0, <<>>, 0)] >>

ScholarElement ==
  [title     |-> <<"A","I"," ","r","a","d","i","o","l","o","g","y">>,
   authors   |-> <<"D">>,
   abstract  |-> <<"d","e","e","p"," ","l","e","a","r","n","i","n","g">>,
   link      |-> "scholar-1",
   citations |-> 0]

ScholarPages ==
  << [ok |-> FALSE],
     [ok |-> TRUE, results |-> <<>>],
     [ok |-> TRUE, results |-> <<ScholarElement>> ] >>

\* who calls fetchArticles
Callers == {"useEffect", "initializeArticles", "checkAndRefresh", "retry"}

\* the number of fetchArticles calls that are awaiting their Promise.all
RECURSIVE Sum(_, _)
Sum(f, S) ==
  IF S = {} THEN 0
  ELSE LET c == CHOOSE x \in S : TRUE IN f[c] + Sum(f, S \ {c})

InFlight == Sum(runs, Callers)

\* fetchArticles up to its await: setLoading(true), both fetches started
StartFetch(caller) ==
  /\ InFlight < MaxRuns
  /\ runs' = [runs EXCEPT ![caller] = @ + 1]
  /\ loading' = TRUE

AppInit ==
  /\ phase = "effects"
  /\ articles = <<>>
  /\ subdomainStats = <<>>
  /\ loading = TRUE
  /\ error = NoError
  /\ lastRefresh = <<>>
  /\ handlerLastRefresh = <<>>
  /\ localStorage = [k \in {"lastRefresh", CACHE_KEY} |-> <<>>]
  /\ runs = [c \in Callers |-> 0]
  /\ stalled = 0
  /\ lastRun = NotRun
  /\ now = 0

Init ==
  /\ AppInit
  /\ input = NotRun
  /\ output = NotRun

\* useEffect (lines 460-477) on mount: the initial fetch when there is no
\* lastRefresh, then the interval and the focus listener are registered
MountEffect ==
  /\ phase = "effects"
  /\ phase' = "initialize"
  /\ handlerLastRefresh' = lastRefresh
  /\ IF lastRefresh = <<>>
       THEN StartFetch("useEffect")
       ELSE UNCHANGED <<runs, loading>>
  /\ UNCHANGED <<articles, subdomainStats, error, lastRefresh, localStorage,
                 lastRun, now, stalled, callVars>>

\* useEffect (lines 480-510) on mount: initializeArticles up to its await
InitializeArticles ==
  /\ phase = "initialize"
  /\ phase' = "ready"
  /\ LET cached == getCachedArticles(localStorage, now)
     IN  IF cached.hit
           THEN /\ articles' = cached.data
                /\ subdomainStats' = statsOf(cached.data)
                /\ loading' = FALSE
                /\ UNCHANGED runs
           ELSE /\ StartFetch("initializeArticles")
                /\ UNCHANGED <<articles, subdomainStats>>
  /\ UNCHANGED <<error, lastRefresh, handlerLastRefresh, localStorage, lastRun,
                 now, stalled, callVars>>

\* the body of fetchArticles from its await on: what the two sources
\* return, what setArticles and updateStats receive
fetchOutcome(up, page, nowT) ==
  Bind(combineArticles(fetchPubMedArticles(up, nowT),
                       fetchGoogleScholar(page, nowT)),
       LAMBDA combined :
         [articles     |-> combined,
          stats        |-> statsOf(combined),
          pubmedThrew  |-> pubMedRun(up, nowT).threw,
          scholarThrew |-> scholarRun(page, nowT).threw])

\* fetchOutcome for every answer and hour App can meet, evaluated once
AppOutcomes ==
  [up \in DOMAIN AppUpstreams, page \in DOMAIN ScholarPages, t \in 0..MaxTime |->
     fetchOutcome(AppUpstreams[up], ScholarPages[page], t)]

\* Promise.all of a run called by `caller` resolves: the rest of
\* fetchArticles, and of initializeArticles when it is the caller awaiting it.
\* up and page number what the two upstreams answered; writable is whether
\* localStorage.setItem succeeds (it throws when the quota is used up).
FetchArticlesDone(caller, up, page, writable) ==
  /\ phase = "ready"
  /\ runs[caller] > 0
  /\ LET outcome == AppOutcomes[up, page, now]
     IN  /\ articles' = outcome.articles
         /\ subdomainStats' = outcome.stats
         /\ loading' = FALSE
         /\ lastRun' = [run |-> TRUE,
                        pubmedThrew  |-> outcome.pubmedThrew,
                        scholarThrew |-> outcome.scholarThrew]
         /\ IF caller = "initializeArticles"
              THEN IF writable
                     THEN /\ localStorage' =
                               [localStorage EXCEPT ![CACHE_KEY] =
                                  <<cacheEntry(now, fetchArticlesResult(outcome.articles))>>]
                          /\ UNCHANGED error
                     ELSE /\ error' = "Failed to load articles. Please try again later."
                          /\ UNCHANGED localStorage
              ELSE /\ writable
                   /\ UNCHANGED <<localStorage, error>>
  /\ runs' = [runs EXCEPT ![caller] = @ - 1]
  /\ UNCHANGED <<phase, lastRefresh, handlerLastRefresh, now, stalled, callVars>>

\* isNewDay comparing the instants, not their calendar days
isNewDayByInstant(last, nowT) == last = <<>> \/ last[1] # nowT

\* isNewDay without the comparison of the calendar days
isNewDayAbsentOnly(last, nowT) == last = <<>>

\* checkAndRefresh, called by the 30-minute interval and by the window's
\* focus listener, with the lastRefresh its closure captured; writable as above
isNewDay(last, nowT) == last = <<>> \/ Day(last[1]) # Day(nowT)

\* checkAndRefresh without its setLastRefresh
checkAndRefreshStorageOnly(writable) ==
  /\ phase = "ready"
  /\ IF isNewDay(handlerLastRefresh, now)
       THEN /\ StartFetch("checkAndRefresh")
            /\ localStorage' = IF writable
                                 THEN [localStorage EXCEPT !["lastRefresh"] = <<now>>]
                                 ELSE localStorage
            /\ UNCHANGED lastRefresh
       ELSE /\ writable
            /\ UNCHANGED <<runs, loading, lastRefresh, localStorage>>
  /\ UNCHANGED <<phase, articles, subdomainStats, error, handlerLastRefresh,
                 lastRun, now, stalled, callVars>>

checkAndRefresh(writable) ==
  /\ phase = "ready"
  /\ IF isNewDay(handlerLastRefresh, now)
       THEN /\ StartFetch("checkAndRefresh")
            /\ lastRefresh' = <<now>>
            /\ localStorage' = IF writable
                                 THEN [localStorage EXCEPT !["lastRefresh"] = <<now>>]
                                 ELSE localStorage
       ELSE /\ writable
            /\ UNCHANGED <<runs, loading, lastRefresh, localStorage>>
  /\ UNCHANGED <<phase, articles, subdomainStats, error, handlerLastRefresh,
                 lastRun, now, stalled, callVars>>

CheckAndRefresh == \E writable \in BOOLEAN : checkAndRefresh(writable)

\* the render after setLastRefresh: the effect of lines 460-477 runs again
\* and registers the new checkAndRefresh
Rerender ==
  /\ phase = "ready"
  /\ handlerLastRefresh # lastRefresh
  /\ handlerLastRefresh' = lastRefresh
  /\ IF lastRefresh = <<>>
       THEN StartFetch("useEffect")
       ELSE UNCHANGED <<runs, loading>>
  /\ UNCHANGED <<phase, articles, subdomainStats, error, lastRefresh,
                 localStorage, lastRun, now, stalled, callVars>>

\* the Retry button with a fetchArticles that begins with setError(null)
RetryClearsError ==
  /\ phase = "ready"
  /\ ~loading
  /\ error # NoError
  /\ StartFetch("retry")
  /\ error' = NoError
  /\ UNCHANGED <<phase, articles, subdomainStats, lastRefresh,
                 handlerLastRefresh, localStorage, lastRun, now, stalled, callVars>>

\* the Retry button of the error view
Retry ==
  /\ phase = "ready"
  /\ ~loading
  /\ error # NoError
  /\ StartFetch("retry")
  /\ UNCHANGED <<phase, articles, subdomainStats, error, lastRefresh,
                 handlerLastRefresh, localStorage, lastRun, now, stalled, callVars>>

\* time passes
AdvanceClock ==
  /\ \E step \in ClockSteps : now + step <= MaxTime /\ now' = now + step
  /\ UNCHANGED <<phase, articles, subdomainStats, loading, error, lastRefresh,
                 handlerLastRefresh, localStorage, runs, lastRun, stalled, callVars>>

\* the page is loaded again: React state starts over, localStorage stays
Reload ==
  /\ phase = "ready"
  /\ phase' = "effects"
  /\ articles' = <<>>
  /\ subdomainStats' = <<>>
  /\ loading' = TRUE
  /\ error' = NoError
  /\ lastRefresh' = localStorage["lastRefresh"]
  /\ handlerLastRefresh' = <<>>
  /\ runs' = [c \in Callers |-> 0]
  /\ stalled' = 0
  /\ lastRun' = NotRun
  /\ UNCHANGED <<localStorage, now, callVars>>

FetchDone ==
  \E caller \in Callers, up \in DOMAIN AppUpstreams, page \in DOMAIN ScholarPages,
     writable \in BOOLEAN :
    FetchArticlesDone(caller, up, page, writable)

Next ==
  \/ MountEffect
  \/ InitializeArticles
  \/ FetchDone
  \/ CheckAndRefresh
  \/ Rerender
  \/ Retry
  \/ AdvanceClock
  \/ Reload

Spec == Init /\ [][Next]_vars

\* ---------------------------------------------------------------------
\* Properties of the running application (specification Spec)

\* a step in which the fetchArticles call made by `caller` finishes
Finishes(caller) ==
  /\ phase = "ready"
  /\ phase' = "ready"
  /\ runs'[caller] = runs[caller] - 1

\* the run that has just finished met a failure of every query
AllQueriesFailed(run) == run.run /\ run.pubmedThrew /\ run.scholarThrew

\* the run that has just finished met no failure
NoQueryFailed(run) == run.run /\ ~run.pubmedThrew /\ ~run.scholarThrew

\* C1: at any moment at most one fetchArticles run is awaiting its upstreams;
\* a trigger that arrives while a run is in flight starts no second one.
C1_AtMostOneRunInFlight == InFlight <= 1

\* C3: a run of which every query failed leaves the entry under CACHE_KEY
\* as it was: the step that finishes it does not change its timestamp or data.
C3_FailedRunKeepsCache ==
  [][ \A caller \in Callers :
        (Finishes(caller) /\ AllQueriesFailed(lastRun'))
          => localStorage'[CACHE_KEY] = localStorage[CACHE_KEY] ]_vars

\* C4: after a run of which every query failed, the articles on display are
\* the ones shown before it, or, when there were none, an error is shown;
\* the list is never replaced by an empty one with no error.
C4_FailedRunKeepsArticlesOrShowsError ==
  [][ \A caller \in Callers :
        (Finishes(caller) /\ AllQueriesFailed(lastRun'))
          => /\ articles # <<>> => articles' = articles
             /\ articles = <<>> => error' # NoError ]_vars

\* C5: after a run called by initializeArticles that met no failure and
\* whose write succeeded, the entry under CACHE_KEY holds the article set
\* of that run with the time of the write, and getCachedArticles returns it.
C5_InitialRunCachesArticles ==
  [][ (Finishes("initializeArticles") /\ NoQueryFailed(lastRun') /\ error' = NoError)
        => /\ localStorage'[CACHE_KEY] = <<[timestamp |-> now, data |-> articles']>>
           /\ getCachedArticles(localStorage', now) = [hit |-> TRUE, data |-> articles'] ]_vars

\* C6: no two articles on display are the same publication: they differ in
\* their PubMed uid (the link) and in their title, compared without case.
C6_NoDuplicatePublication ==
  \A i, j \in 1..Len(articles) :
    i < j => /\ articles[i].link # articles[j].link
             /\ toLowerCase(articles[i].title) # toLowerCase(articles[j].title)

\* ---------------------------------------------------------------------
\* fetchPubMedArticles called on its own (specification SpecFetch): the
\* answers of PubMed are drawn from a bounded set, the call is one step

MaxIds == 2

FetchUids == {1, 2, 3, 5}

RECURSIVE Descending(_)
Descending(S) ==
  IF S = {} THEN <<>>
  ELSE LET m == CHOOSE x \in S : \A y \in S : x >= y
       IN  <<m>> \o Descending(S \ {m})

\* the id lists esearch may return: at most MaxIds distinct uids
IdLists == {Descending(S) : S \in {T \in SUBSET FetchUids : Cardinality(T) <= MaxIds}}

\* a request either succeeds at once or fails at every attempt
FailCounts == {0, retries}

TermAnswers ==
  {Response(retries, <<>>, 0)}
    \cup {Response(0, ids, m) : ids \in IdLists \ {<<>>}, m \in FailCounts}
    \cup {Response(0, <<>>, 0)}

FetchUpstreams == [1..NumSearchTerms -> TermAnswers]

FetchInit ==
  /\ AppInit
  /\ input \in FetchUpstreams
  /\ output = NotRun

CallFetchPubMedArticles ==
  /\ output = NotRun
  /\ output' = Bind(pubMedRun(input, now),
                    LAMBDA run : [run      |-> TRUE,
                                  threw    |-> run.threw,
                                  articles |-> IF run.threw THEN <<>> ELSE run.articles])
  /\ UNCHANGED <<appVars, input>>

FetchNext == CallFetchPubMedArticles

SpecFetch == FetchInit /\ [][FetchNext]_vars

\* the requests of search term answer r that fail after the last retry
TermFails(r) ==
  \/ fetchWithRetry(r.search).threw
  \/ r.idlist # <<>> /\ fetchWithRetry(r.summary).threw

\* the records of RawItems that processArticle turns into an article
ClinicalUids ==
  {u \in Uids : /\ ~processArticleThrows(RawItems[u], 0)
                /\ processArticle(RawItems[u], 0) # Null}

\* the records of RawItems on which processArticle throws
ThrowingUids == {u \in Uids : processArticleThrows(RawItems[u], 0)}

IdsOf(r) == {r.idlist[k] : k \in DOMAIN r.idlist}

LinksOf(list) == {list[k].link : k \in DOMAIN list}

\* C2: when the requests of a search term fail after the last retry, the
\* articles of the terms whose requests succeeded are still returned
\* (no record of the answers throws in processArticle).
C2_FailedTermKeepsOthers ==
  (output.run /\ \A t \in DOMAIN input : IdsOf(input[t]) \cap ThrowingUids = {})
    => \A t \in DOMAIN input :
         ~TermFails(input[t])
           => (IdsOf(input[t]) \cap ClinicalUids) \subseteq LinksOf(output.articles)

\* C8: when processArticle throws on one record, the other records of the
\* answers still become articles of the result (no request fails).
C8_ThrowingRecordSkipsOnlyItself ==
  (output.run /\ \A t \in DOMAIN input : ~TermFails(input[t]))
    => \A t \in DOMAIN input :
         (IdsOf(input[t]) \cap ClinicalUids) \subseteq LinksOf(output.articles)

\* ---------------------------------------------------------------------
\* processArticle called on its own (specification SpecProcess): a record of
\* RawItems with every combination of its two date fields

\* a date field: absent, empty, a string that parses, one that does not
PubDates == {<<>>, <<"">>, <<"2024 Jan 15">>, <<"2024 Spring">>}

SortPubDates == {<<>>, <<"">>, <<"2024/01/10 00:00">>, <<"2024 Winter">>}

ProcessInputs == [uid : Uids, pubdate : PubDates, sortpubdate : SortPubDates]

\* the record of RawItems with the date fields of the input
ItemOf(in) ==
  LET base  == RawItems[in.uid]
      dated == (DOMAIN base \ {"pubdate", "sortpubdate"})
                 \cup (IF in.pubdate # <<>> THEN {"pubdate"} ELSE {})
                 \cup (IF in.sortpubdate # <<>> THEN {"sortpubdate"} ELSE {})
  IN  [f \in dated |-> IF f = "pubdate" THEN in.pubdate[1]
                       ELSE IF f = "sortpubdate" THEN in.sortpubdate[1]
                       ELSE base[f]]

ProcessInit ==
  /\ AppInit
  /\ input \in ProcessInputs
  /\ output = NotRun

CallProcessArticle ==
  /\ output = NotRun
  /\ output' = Bind(ItemOf(input),
                    LAMBDA item :
                      IF processArticleThrows(item, now)
                        THEN [run |-> TRUE, threw |-> TRUE]
                        ELSE [run |-> TRUE, threw |-> FALSE,
                              result |-> processArticle(item, now)])
  /\ UNCHANGED <<appVars, input>>

ProcessNext == CallProcessArticle

SpecProcess == ProcessInit /\ [][ProcessNext]_vars

\* a date field of the input that is present and parses
Parseable(field) == field # <<>> /\ NewDate(field[1]).valid

\* C9: processArticle never throws, and the publicationDate of the article
\* it returns is that of pubdate when present and parseable, otherwise that
\* of sortpubdate when present and parseable, otherwise the time `now`.
C9_ProcessArticleDatePriority ==
  output.run
    => /\ ~output.threw
       /\ output.result # Null
            => output.result.publicationDate =
                 IF Parseable(input.pubdate) THEN NewDate(input.pubdate[1]).t
                 ELSE IF Parseable(input.sortpubdate)
                        THEN NewDate(input.sortpubdate[1]).t
                 ELSE now

\* ---------------------------------------------------------------------
\* isClinicalPaper called on its own (specification SpecFilter): articles
\* put together from sample journals, titles and abstracts; each sample
\* says whether it holds an allow-listed journal name, an AI keyword, an
\* imaging keyword

JournalSamples ==
  << [text |-> <<"R","A","D","I","O","L","O","G","Y">>,
      allowed |-> TRUE],
     [text |-> <<"J","o","u","r","n","a","l"," ","o","f"," ","D","i","g","i","t","a","l"," ","I","m","a","g","i","n","g">>,
      allowed |-> TRUE],
     [text |-> <<"A","n","n","a","l","s"," ","o","f"," ","N","e","u","r","o","r","a","d","i","o","l","o","g","y"," ","R","e","s","e","a","r","c","h">>,
      allowed |-> TRUE],
     [text |-> <<"N","a","t","u","r","e"," ","M","e","d","i","c","i","n","e">>,
      allowed |-> FALSE],
     [text |-> <<"R","a","d","i","o","l","o","g">>,
      allowed |-> FALSE],
     [text |-> <<>>,
      allowed |-> FALSE] >>

TitleSamples ==
  << [text |-> <<"D","e","e","p"," ","L","e","a","r","n","i","n","g"," ","f","o","r"," ","C","h","e","s","t"," ","C","T">>,
      ai |-> TRUE, imaging |-> FALSE],
     [text |-> <<"M","A","C","H","I","N","E"," ","L","E","A","R","N","I","N","G"," ","i","n"," ","R","a","d","i","o","l","o","g","y">>,
      ai |-> TRUE, imaging |-> TRUE],
     [text |-> <<"I","m","a","g","i","n","g"," ","o","f"," ","t","h","e"," ","l","i","v","e","r">>,
      ai |-> FALSE, imaging |-> TRUE],
     [text |-> <<"L","e","a","r","n","i","n","g"," ","m","a","c","h","i","n","e","s">>,
      ai |-> FALSE, imaging |-> FALSE],
     [text |-> <<"E","d","i","t","o","r","i","a","l",":"," ","n","e","u","r","a","l"," ","n","e","t","w","o","r","k"," ","i","m","a","g","i","n","g">>,
      ai |-> TRUE, imaging |-> TRUE],
     [text |-> <<"A","r","t","i","f","i","c","i","a","l","-","i","n","t","e","l","l","i","g","e","n","c","e"," ","r","a","d","i","o","g","r","a","p","h","s">>,
      ai |-> FALSE, imaging |-> FALSE] >>

AbstractSamples ==
  << [text |-> <<>>,
      ai |-> FALSE, imaging |-> FALSE],
     [text |-> <<"r","a","d","i","o","g","r","a","p","h","i","c"," ","f","i","n","d","i","n","g","s">>,
      ai |-> FALSE, imaging |-> TRUE],
     [text |-> <<"a","n"," ","a","r","t","i","f","i","c","i","a","l"," ","i","n","t","e","l","l","i","g","e","n","c","e"," ","m","o","d","e","l">>,
      ai |-> TRUE, imaging |-> FALSE],
     [text |-> <<"r","a","d","i","o","l","o","g","i","c","a","l"," ","n","e","u","r","a","l"," ","n","e","t","w","o","r","k","s">>,
      ai |-> TRUE, imaging |-> TRUE],
     [text |-> <<"R","E","T","R","A","C","T","I","O","N"," ","o","f"," ","a"," ","d","e","e","p"," ","l","e","a","r","n","i","n","g"," ","i","m","a","g","i","n","g"," ","s","t","u","d","y">>,
      ai |-> TRUE, imaging |-> TRUE] >>

FilterInputs ==
  [journal : DOMAIN JournalSamples, title : DOMAIN TitleSamples,
   abstract : DOMAIN AbstractSamples]

ArticleOf(in) ==
  [journal  |-> JournalSamples[in.journal].text,
   title    |-> TitleSamples[in.title].text,
   abstract |-> AbstractSamples[in.abstract].text]

FilterInit ==
  /\ AppInit
  /\ input \in FilterInputs
  /\ output = NotRun

CallIsClinicalPaper ==
  /\ output = NotRun
  /\ output' = [run |-> TRUE, result |-> isClinicalPaper(ArticleOf(input))]
  /\ UNCHANGED <<appVars, input>>

FilterNext == CallIsClinicalPaper

SpecFilter == FilterInit /\ [][FilterNext]_vars

\* kw occurs in text at position i, letters compared without case
OccursAt(text, kw, i) ==
  \A k \in 1..Len(kw) : toLowerCase(<<text[i + k - 1]>>) = toLowerCase(<<kw[k]>>)

ContainsIgnoringCase(text, kw) ==
  \E i \in 1..(Len(text) - Len(kw) + 1) : OccursAt(text, kw, i)

ContainsSomeOf(text, keywords) ==
  \E k \in DOMAIN keywords : ContainsIgnoringCase(text, keywords[k])

\* C10: isClinicalPaper returns true only for an article whose journal
\* contains, without regard to case, a name of CLINICAL_RADIOLOGY_JOURNALS
\* and whose title and abstract, joined by a space, contain an AI keyword
\* and an imaging keyword; an article of another journal is rejected
\* whatever its text.
C10_ClinicalOnlyIfJournalAIImaging ==
  output.run
    => LET article == ArticleOf(input)
           text    == article.title \o <<" ">> \o article.abstract
           title   == TitleSamples[input.title]
           abstract == AbstractSamples[input.abstract]
       IN  /\ output.result
                => /\ ContainsSomeOf(article.journal, CLINICAL_RADIOLOGY_JOURNALS)
                   /\ ContainsSomeOf(text, aiKeywords)
                   /\ ContainsSomeOf(text, imagingKeywords)
                   /\ JournalSamples[input.journal].allowed
                   /\ title.ai \/ abstract.ai
                   /\ title.imaging \/ abstract.imaging
           /\ ~JournalSamples[input.journal].allowed => ~output.result

\* an article of an allow-listed journal with both kinds of keyword was accepted
C10_Witness ==
  /\ output.run
  /\ output.result
  /\ JournalSamples[input.journal].allowed
  /\ TitleSamples[input.title].ai
  /\ AbstractSamples[input.abstract].imaging

\* ---------------------------------------------------------------------
\* The combine-and-deduplicate step of fetchArticles on its own
\* (specification SpecDedup): lists of PubMed and of Google Scholar articles
\* with short titles, some of them near one another

MaxList == 2

\* "ai ct" and "AI CTS" are more than 0.8 alike, and so are "AI CTS" and
\* "ai ctsx"; "ai ct" and "ai ctsx" are not; "ai c" and "ai ct" are exactly
\* 0.8 alike (2 * 2 common bigrams over 2 + 3)
DedupTitles ==
  { <<"a","i"," ","c">>,
    <<"a","i"," ","c","t">>,
    <<"A","I"," ","C","T","S">>,
    <<"a","i"," ","c","t","s","x">>,
    <<"m","r","i">> }

DedupDates == {-48, -24}

PubMedSamples == [title : DedupTitles, publicationDate : {-48}]

ScholarSamples ==
  [title : DedupTitles, publicationDate : DedupDates, source : {"Google Scholar"}]

ListsUpTo(S, n) == UNION {[1..k -> S] : k \in 0..n}

DedupInputs ==
  [pubmed  : {<<>>} \cup {<<a>> : a \in PubMedSamples}
               \cup {<<a, b>> : a \in PubMedSamples, b \in PubMedSamples},
   scholar : ListsUpTo(ScholarSamples, MaxList)]

DedupInit ==
  /\ AppInit
  /\ input \in DedupInputs
  /\ output = NotRun

CallCombineArticles ==
  /\ output = NotRun
  /\ output' = [run |-> TRUE,
                combined |-> combineArticles(input.pubmed, input.scholar)]
  /\ UNCHANGED <<appVars, input>>

DedupNext == CallCombineArticles

SpecDedup == DedupInit /\ [][DedupNext]_vars

\* the articles of a combined list by source, in the order of the list
FromScholar(a) == "source" \in DOMAIN a

ScholarOf(list) == SelectSeq(list, FromScholar)

PubMedOf(list) == SelectSeq(list, LAMBDA a : ~FromScholar(a))

\* C7: the step is idempotent: its output, given back to it, comes out
\* unchanged, both when each article goes back to the list of its source
\* and when the whole output is the list of candidates beside the same
\* PubMed articles.
C7_DedupIdempotent ==
  output.run
    => /\ combineArticles(PubMedOf(output.combined), ScholarOf(output.combined))
            = output.combined
       /\ combineArticles(input.pubmed, output.combined) = output.combined

\* a Google Scholar article was dropped as a duplicate and another was kept
C7_Witness ==
  /\ output.run
  /\ Len(output.combined) < Len(input.pubmed) + Len(input.scholar)
  /\ ScholarOf(output.combined) # <<>>
  /\ input.pubmed # <<>>

\* ---------------------------------------------------------------------
\* Further properties of isClinicalPaper (specification SpecFilter)

\* the samples that hold an exclusion term: the 'Editorial' title and the
\* 'RETRACTION' abstract
ExcludedTitles == {5}

ExcludedAbstracts == {5}

\* C11: isClinicalPaper rejects every article whose title and abstract,
\* joined by a space, contain an exclusion term, whatever its journal and
\* its AI and imaging keywords.
C11_ExclusionAlwaysWins ==
  output.run
    => LET article == ArticleOf(input)
           text    == article.title \o <<" ">> \o article.abstract
       IN  (\/ ContainsSomeOf(text, nonClinicalIndicators)
            \/ input.title \in ExcludedTitles
            \/ input.abstract \in ExcludedAbstracts)
             => ~output.result

\* an article of an allow-listed journal with an AI and an imaging keyword
\* and an exclusion term was rejected
C11_Witness ==
  /\ output.run
  /\ ~output.result
  /\ JournalSamples[input.journal].allowed
  /\ input.abstract \in ExcludedAbstracts
  /\ TitleSamples[input.title].ai
  /\ TitleSamples[input.title].imaging
  /\ input.title \notin ExcludedTitles

\* ---------------------------------------------------------------------
\* categorizeArticle called on its own (specification SpecClassify):
\* articles put together from sample titles and abstracts; each sample
\* lists the subdomains, by their place in radiologySubdomains, of which it
\* holds a keyword ('gi' occurs in "imaging", 'pet' in "Competing")

ClassifyTitles ==
  << [text |-> <<"D","e","e","p"," ","l","e","a","r","n","i","n","g"," ","f","o","r"," ","C","h","e","s","t"," ","C","T">>,
      hits |-> {2}],
     [text |-> <<"N","e","u","r","a","l"," ","n","e","t","w","o","r","k"," ","f","o","r"," ","L","I","V","E","R"," ","l","e","s","i","o","n","s">>,
      hits |-> {1, 3}],
     [text |-> <<"B","r","e","a","s","t"," ","M","R","I"," ","s","c","r","e","e","n","i","n","g">>,
      hits |-> {5}],
     [text |-> <<"M","a","c","h","i","n","e"," ","l","e","a","r","n","i","n","g"," ","i","n"," ","i","m","a","g","i","n","g">>,
      hits |-> {3}],
     [text |-> <<"A","I"," ","t","r","i","a","g","e"," ","t","o","o","l">>,
      hits |-> {}],
     [text |-> <<"B","o","n","e"," ","a","g","e"," ","a","n","d"," ","P","E","T"," ","t","r","a","c","e","r">>,
      hits |-> {4, 6}],
     [text |-> <<>>,
      hits |-> {}],
     [text |-> <<"M","a","m","m","o","g","r","a","p","h","i","c"," ","d","e","n","s","i","t","y">>,
      hits |-> {5}],
     [text |-> <<"K","n","e","e"," ","j","o","i","n","t"," ","M","R","I">>,
      hits |-> {4}],
     [text |-> <<"C","o","m","p","e","t","i","n","g"," ","m","o","d","e","l","s">>,
      hits |-> {6}] >>

ClassifyAbstracts ==
  << [text |-> <<>>,
      hits |-> {}],
     [text |-> <<"l","u","n","g"," ","n","o","d","u","l","e"," ","d","e","t","e","c","t","i","o","n">>,
      hits |-> {2}],
     [text |-> <<"S","P","E","C","T"," ","u","p","t","a","k","e">>,
      hits |-> {6}],
     [text |-> <<"a"," ","n","e","w"," ","m","e","t","h","o","d">>,
      hits |-> {}],
     [text |-> <<"B","R","A","I","N"," ","t","u","m","o","u","r">>,
      hits |-> {1}],
     [text |-> <<"c","a","r","d","i","o","v","a","s","c","u","l","a","r"," ","r","i","s","k">>,
      hits |-> {2}] >>

ClassifyInputs == [title : DOMAIN ClassifyTitles, abstract : DOMAIN ClassifyAbstracts]

ClassifyArticleOf(in) ==
  [title    |-> ClassifyTitles[in.title].text,
   abstract |-> ClassifyAbstracts[in.abstract].text]

ClassifyInit ==
  /\ AppInit
  /\ input \in ClassifyInputs
  /\ output = NotRun

CallCategorizeArticle ==
  /\ output = NotRun
  /\ output' = [run |-> TRUE, subdomain |-> categorizeArticle(ClassifyArticleOf(input))]
  /\ UNCHANGED <<appVars, input>>

ClassifyNext == CallCategorizeArticle

SpecClassify == ClassifyInit /\ [][ClassifyNext]_vars

\* the configured keys of radiologySubdomains
SubdomainNames == {radiologySubdomains[k].name : k \in DOMAIN radiologySubdomains}

\* the subdomains of which the input holds a keyword: by its samples, and by
\* a position-wise comparison of the joined text with the keywords
HitsOf(in) == ClassifyTitles[in.title].hits \cup ClassifyAbstracts[in.abstract].hits

MatchesOf(in) ==
  LET article == ClassifyArticleOf(in)
      text    == article.title \o <<" ">> \o article.abstract
  IN  {k \in DOMAIN radiologySubdomains :
         ContainsSomeOf(text, radiologySubdomains[k].keywords)}

Least(S) == CHOOSE x \in S : \A y \in S : x <= y

CountOf(list, s) == Cardinality({i \in DOMAIN list : categorizeArticle(list[i]) = s})

\* C14: the counts updateStats computes hold an entry for every key of
\* radiologySubdomains, 0 for a subdomain with no article, and each count
\* is the number of articles categorizeArticle puts in that subdomain.
C14_CountsForEveryBucket ==
  lastRun.run
    => \A s \in SubdomainNames :
         \E i \in DOMAIN subdomainStats :
           /\ subdomainStats[i].key = s
           /\ subdomainStats[i].value = CountOf(articles, s)

\* the reduce of HeroSection's topSubdomain: the first entry, in the order
\* of Object.entries, with the highest value above 0
RECURSIVE maxEntryFrom(_, _, _)
maxEntryFrom(stats, k, max) ==
  IF k > Len(stats) THEN max
  ELSE maxEntryFrom(stats, k + 1,
                    IF stats[k].value > max.value THEN stats[k] ELSE max)

\* key.split('/')[0]
splitSlashFirst(key) ==
  CASE key = "Chest/Cardiac"     -> "Chest"
    [] key = "Nuclear/Molecular" -> "Nuclear"
    [] key = "General/Other"     -> "General"
    [] OTHER                     -> key

topSubdomain(stats) ==
  splitSlashFirst(maxEntryFrom(stats, 1, [key |-> "", value |-> 0]).key)

\* curr.authors ? curr.authors.length : 0, summed
RECURSIVE authorsTotal(_, _)
authorsTotal(list, k) ==
  IF k > Len(list) THEN 0
  ELSE (IF "authors" \in DOMAIN list[k] /\ list[k].authors # <<>>
          THEN Len(list[k].authors) ELSE 0)
       + authorsTotal(list, k + 1)

\* total / articles.length: NaN for 0 / 0, else the quotient in tenths,
\* rounded as toFixed(1) rounds it
authorsQuotient(list) ==
  IF Len(list) = 0 THEN [nan |-> TRUE]
  ELSE [nan |-> FALSE,
        tenths |-> (20 * authorsTotal(list, 1) + Len(list)) \div (2 * Len(list))]

\* (quotient || 0).toFixed(1), in tenths
avgAuthors(list) ==
  LET quotient == authorsQuotient(list)
  IN  IF quotient.nan \/ quotient.tenths = 0
        THEN [nan |-> FALSE, tenths |-> 0]
        ELSE quotient

\* C15: with no article, the statistics hold a count of 0 for every key of
\* radiologySubdomains, and the leaderboard fields are defined: the top
\* subdomain is the empty label and the average author count is 0.0.
C15_EmptySetAggregation ==
  (lastRun.run /\ articles = <<>>)
    => /\ \A s \in SubdomainNames :
            \E i \in DOMAIN subdomainStats :
              subdomainStats[i].key = s /\ subdomainStats[i].value = 0
       /\ topSubdomain(subdomainStats) = ""
       /\ avgAuthors(articles) = [nan |-> FALSE, tenths |-> 0]

\* ---------------------------------------------------------------------
\* The application while the page stays open (specification SpecLive): no
\* Reload; responses, timeouts, interval ticks and renders keep coming; the
\* request to Google Scholar, which carries no timeout, may stay unanswered.
\* setInterval calls checkAndRefresh every 30 minutes whatever else happens,
\* so the tick is taken again and again (strong fairness); the effects, the
\* settling of answered requests and React's renders are taken once pending.

MaxStalled == 1

\* axios.get(searchUrl, {headers}) of fetchGoogleScholar gets no answer: the
\* Promise.all of that fetchArticles call never settles
ScholarNeverAnswers ==
  \E caller \in Callers :
    /\ phase = "ready"
    /\ runs[caller] > 0
    /\ stalled < MaxStalled
    /\ runs' = [runs EXCEPT ![caller] = @ - 1]
    /\ stalled' = stalled + 1
    /\ UNCHANGED <<phase, articles, subdomainStats, loading, error, lastRefresh,
                   handlerLastRefresh, localStorage, lastRun, now, callVars>>

LiveNext ==
  \/ MountEffect
  \/ InitializeArticles
  \/ FetchDone
  \/ ScholarNeverAnswers
  \/ CheckAndRefresh
  \/ Rerender
  \/ Retry
  \/ AdvanceClock

SpecLive ==
  /\ Init
  /\ [][LiveNext]_vars
  /\ WF_vars(MountEffect)
  /\ WF_vars(InitializeArticles)
  /\ WF_vars(FetchDone)
  /\ SF_vars(CheckAndRefresh)
  /\ WF_vars(Rerender)

\* C16: every run terminates: no fetchArticles call is left for ever with a
\* Promise.all that has not settled, whatever the upstreams do.
C16_EveryRunTerminates == (stalled > 0) ~> (stalled = 0)

\* the calendar day of `now` is not the day of the lastRefresh state
RefreshDue == lastRefresh = <<>> \/ Day(lastRefresh[1]) # Day(now)

\* a step in which checkAndRefresh calls fetchArticles
TickStartsRun == runs'["checkAndRefresh"] = runs["checkAndRefresh"] + 1

matchesSubdomain(article, selectedSubdomain) ==
  /\ "subdomain" \in DOMAIN article
  /\ article.subdomain = selectedSubdomain

\* filteredArticles after a click on a subdomain button, with no date range
\* (getFilteredArticles returns articles) and the search term typed so far
filteredArticles(list, searchTerm, selectedSubdomain) ==
  SelectSeq(list, LAMBDA article :
    /\ ContainsIgnoringCase(article.title, searchTerm)
    /\ matchesSubdomain(article, selectedSubdomain))

\* the articles of the list that categorizeArticle puts in subdomain s
ClassifiedAs(list, s) ==
  SelectSeq(list, LAMBDA article : categorizeArticle(article) = s)

\* C18: every article of the articles state carries the subdomain that
\* categorizeArticle assigns to it, and with an empty search box a subdomain
\* filter lists exactly the articles classified into that subdomain.
C18_ArticlesCarryBucket ==
  /\ \A i \in DOMAIN articles :
       /\ "subdomain" \in DOMAIN articles[i]
       /\ articles[i].subdomain = categorizeArticle(articles[i])
  /\ \A s \in SubdomainNames :
       filteredArticles(articles, <<>>, s) = ClassifiedAs(articles, s)

\* ---------------------------------------------------------------------
\* fetchWithRetry against an upstream (specification SpecRetry): the input
\* is what the successive axios calls for one url would do, TRUE for a
\* response and FALSE for an error or a timeout

ScriptLen == 7

RetryScripts == [1..ScriptLen -> BOOLEAN]

\* the number of axios calls that fail before the first one that responds
RECURSIVE FailuresFrom(_, _)
FailuresFrom(script, i) ==
  IF i > Len(script) \/ script[i] THEN 0 ELSE 1 + FailuresFrom(script, i + 1)

RetryInit ==
  /\ AppInit
  /\ input \in RetryScripts
  /\ output = NotRun

CallFetchWithRetry ==
  /\ output = NotRun
  /\ output' = [run |-> TRUE, result |-> fetchWithRetry(FailuresFrom(input, 1))]
  /\ UNCHANGED <<appVars, input>>

RetryNext == CallFetchWithRetry

SpecRetry == RetryInit /\ [][RetryNext]_vars

\* the attempts of the script that respond, among the first `retries`
Responding(script) == {i \in 1..retries : script[i]}

\* the least element of a non-empty set of numbers
FirstOf(S) == CHOOSE i \in S : \A j \in S : i <= j

\* C19: fetchWithRetry makes at most 3 attempts; after the k-th failed
\* attempt (k = 0, 1) it waits 2000 * 2^k ms before the next one; it returns
\* the response of the first attempt that succeeds and makes no attempt
\* after it; after the third failure it rethrows.
C19_RetryWithBackoff ==
  output.run =>
    LET r == output.result
    IN  /\ r.attempts <= 3
        /\ \A k \in 0..1 :
             (\A i \in 1..(k + 1) : ~input[i]) => r.delays[k + 1] = 2000 * (2 ^ k)
        /\ IF Responding(input) # {}
             THEN /\ r.resolved /\ ~r.threw
                  /\ r.attempts = FirstOf(Responding(input))
             ELSE /\ r.threw /\ ~r.resolved
                  /\ r.attempts = 3
                  /\ Len(r.delays) = 2

\* a request that failed twice and was answered at the third attempt
C19_Witness ==
  /\ output.run
  /\ ~input[1] /\ ~input[2] /\ input[3]
  /\ output.result.attempts = 3
  /\ output.result.delays[2] = 4000

\* ---------------------------------------------------------------------
\* Triggers after a failed run (specification Spec)

\* a tick or focus event now would call fetchArticles: the registered
\* checkAndRefresh finds a new day
TickWouldFetch == phase = "ready" /\ isNewDay(handlerLastRefresh, now)

\* the Retry button is on the page: the error view is rendered
RetryOffered == phase = "ready" /\ ~loading /\ error # NoError

\* C20: after a failed run the application is idle and retryable: once the
\* run whose every query failed is over and the page is rendered, a tick or
\* focus event starts a new run or the Retry button is there to start one,
\* also on the calendar day of the failed run.
C20_RetryableAfterFailure ==
  (/\ phase = "ready"
   /\ AllQueriesFailed(lastRun)
   /\ InFlight = 0
   /\ handlerLastRefresh = lastRefresh)
    => (TickWouldFetch \/ RetryOffered)

\* ---------------------------------------------------------------------
\* The two staleness rules (specification Spec)

\* the test of getCachedArticles on a stored timestamp
cacheExpired(timestamp, nowT) == ~(nowT - timestamp < CACHE_DURATION)

\* C21: one staleness rule: when the cache entry and lastRefresh carry the
\* same time, checkAndRefresh finds a new day exactly when getCachedArticles
\* finds the entry older than CACHE_DURATION.
C21_OneStalenessRule ==
  (/\ lastRefresh # <<>>
   /\ localStorage[CACHE_KEY] # <<>>
   /\ localStorage[CACHE_KEY][1].timestamp = lastRefresh[1])
    => (isNewDay(lastRefresh, now)
          <=> cacheExpired(localStorage[CACHE_KEY][1].timestamp, now))

\* ---------------------------------------------------------------------
\* The threshold of the cross-source merge (specification SpecDedup)

\* the lower-cased titles of a and b have similarity >= 0.8
AtLeastThreshold(a, b) ==
  Bind(compareTwoStrings(toLowerCase(a.title), toLowerCase(b.title)),
       LAMBDA sim : 5 * sim.num >= 4 * sim.den)

MaxBatchIds == 10

BatchIdLists == {Descending(S) : S \in SUBSET (1..MaxBatchIds)}

BatchInputs == [idlist : BatchIdLists, summary : FailCounts]

BatchUpstream(in) ==
  << Response(0, in.idlist, in.summary),
     Response(0, <<2, 1>>, 0),
     Response(0, <<>>, 0) >>

BatchInit ==
  /\ AppInit
  /\ input \in BatchInputs
  /\ output = NotRun

CallFetchPubMedBatches ==
  /\ output = NotRun
  /\ output' = Bind(pubMedRun(BatchUpstream(input), now),
                    LAMBDA run : [run      |-> TRUE,
                                  threw    |-> run.threw,
                                  requests |-> run.requests])
  /\ UNCHANGED <<appVars, input>>

BatchNext == CallFetchPubMedBatches

SpecBatch == BatchInit /\ [][BatchNext]_vars

\* the ids of one search cut into consecutive chunks of at most 5
ChunksOfFive(ids) ==
  [c \in 1..((Len(ids) + 4) \div 5) |->
     SubSeq(ids, 5 * (c - 1) + 1, Min(5 * c, Len(ids)))]

\* the chunks of every search of the input, in the order of the searches
ExpectedRequests == ChunksOfFive(input.idlist) \o ChunksOfFive(<<2, 1>>)

\* what holds of the esummary requests in every run: they are, in order, the
\* first of the consecutive chunks of at most 5 ids of each search result,
\* and all of them when the run ends normally
RequestsAreLeadingChunks ==
  output.run =>
    /\ Len(output.requests) <= Len(ExpectedRequests)
    /\ output.requests = SubSeq(ExpectedRequests, 1, Len(output.requests))
    /\ \A r \in DOMAIN output.requests : Len(output.requests[r]) \in 1..5
    /\ ~output.threw => output.requests = ExpectedRequests

\* C23: every id of every search result is sent in exactly one esummary
\* request, in the original order, at most 5 ids per request.
C23_EveryIdSent == output.run => output.requests = ExpectedRequests

\* ---------------------------------------------------------------------
\* The weighted classifier of the earlier version of App.js (src/unnamed/
\* part_001), called on its own (specification SpecWeighted)

\* categories, in the order of the object literal
categories ==
  << [name |-> "Clinical AI Applications",
      keywords |-> <<<<"d","i","a","g","n","o","s","i","s">>,
                    <<"p","r","e","d","i","c","t","i","o","n">>,
                    <<"d","e","t","e","c","t","i","o","n">>,
                    <<"c","l","a","s","s","i","f","i","c","a","t","i","o","n">>,
                    <<"s","e","g","m","e","n","t","a","t","i","o","n">>>>],
     [name |-> "Performance Validation",
      keywords |-> <<<<"a","c","c","u","r","a","c","y">>,
                    <<"s","e","n","s","i","t","i","v","i","t","y">>,
                    <<"s","p","e","c","i","f","i","c","i","t","y">>,
                    <<"v","a","l","i","d","a","t","i","o","n">>,
                    <<"p","e","r","f","o","r","m","a","n","c","e">>>>],
     [name |-> "Implementation Studies",
      keywords |-> <<<<"i","m","p","l","e","m","e","n","t","a","t","i","o","n">>,
                    <<"w","o","r","k","f","l","o","w">>,
                    <<"i","n","t","e","g","r","a","t","i","o","n">>,
                    <<"c","l","i","n","i","c","a","l"," ","p","r","a","c","t","i","c","e">>,
                    <<"d","e","p","l","o","y","m","e","n","t">>>>],
     [name |-> "Technical Innovation",
      keywords |-> <<<<"n","o","v","e","l">>,
                    <<"a","l","g","o","r","i","t","h","m">>,
                    <<"f","r","a","m","e","w","o","r","k">>,
                    <<"a","r","c","h","i","t","e","c","t","u","r","e">>,
                    <<"m","e","t","h","o","d","o","l","o","g","y">>>>] >>

\* categories[category].keywords.filter(keyword => text.includes(keyword)).length
weightOf(text, keywords) ==
  Cardinality({k \in DOMAIN keywords : includes(text, keywords[k])})

\* the reduce over Object.entries(categories): a later category replaces max
\* only with a greater weight
RECURSIVE reduceFrom(_, _, _)
reduceFrom(k, text, max) ==
  IF k > Len(categories) THEN max
  ELSE Bind(weightOf(text, categories[k].keywords),
            LAMBDA weight :
              reduceFrom(k + 1, text,
                         IF weight > max.weight
                           THEN [category |-> categories[k].name, weight |-> weight]
                           ELSE max))

\* categorizeArticle of part_001
categorizeArticleWeighted(article) ==
  Bind(articleText(article),
       LAMBDA text : reduceFrom(1, text, [category |-> "Other", weight |-> 0]).category)

WeightedTitles ==
  << <<"A","I"," ","s","t","u","d","y">>,
     <<"L","e","s","i","o","n"," ","d","e","t","e","c","t","i","o","n">>,
     <<"D","e","t","e","c","t","i","o","n"," ","a","c","c","u","r","a","c","y">>,
     <<"N","o","v","e","l"," ","w","o","r","k","f","l","o","w">>,
     <<"D","i","a","g","n","o","s","i","s"," ","a","n","d"," ","d","e","t","e","c","t","i","o","n">>,
     <<"A","c","c","u","r","a","c","y"," ","a","n","d"," ","s","e","n","s","i","t","i","v","i","t","y">>,
     <<"N","o","v","e","l"," ","a","l","g","o","r","i","t","h","m">>,
     <<"D","e","p","l","o","y","m","e","n","t">> >>

WeightedAbstracts ==
  << <<>>,
     <<"v","a","l","i","d","a","t","i","o","n">>,
     <<"S","e","g","m","e","n","t","a","t","i","o","n">>,
     <<"i","n"," ","c","l","i","n","i","c","a","l"," ","p","r","a","c","t","i","c","e">>,
     <<"a"," ","f","r","a","m","e","w","o","r","k">>,
     <<"p","e","r","f","o","r","m","a","n","c","e"," ","a","n","d"," ","a","c","c","u","r","a","c","y">>,
     <<"n","o","v","e","l"," ","d","e","t","e","c","t","i","o","n"," ","w","o","r","k","f","l","o","w">>,
     <<"s","p","e","c","i","f","i","c","i","t","y">> >>

WeightedInputs == [title : DOMAIN WeightedTitles, abstract : DOMAIN WeightedAbstracts]

WeightedArticleOf(in) ==
  [title |-> WeightedTitles[in.title], abstract |-> WeightedAbstracts[in.abstract]]

WeightedInit ==
  /\ AppInit
  /\ input \in WeightedInputs
  /\ output = NotRun

CallCategorizeArticleWeighted ==
  /\ output = NotRun
  /\ output' = [run |-> TRUE,
                category |-> categorizeArticleWeighted(WeightedArticleOf(input))]
  /\ UNCHANGED <<appVars, input>>

WeightedNext == CallCategorizeArticleWeighted

SpecWeighted == WeightedInit /\ [][WeightedNext]_vars

\* the number of keywords of category k that occur in the article's text
HitCount(in, k) ==
  Cardinality({j \in DOMAIN categories[k].keywords :
                 ContainsIgnoringCase(WeightedTitles[in.title] \o Space
                                        \o WeightedAbstracts[in.abstract],
                                      categories[k].keywords[j])})

\* the categories with the highest keyword-hit count
TopCategories(in) ==
  {k \in DOMAIN categories : \A j \in DOMAIN categories : HitCount(in, j) <= HitCount(in, k)}

\* C24: the category with the strictly highest keyword-hit count wins, and
\* when two or more categories tie for the highest count (all counts zero
\* included) the result is 'Other'.
C24_TieFallsToOther ==
  output.run =>
    IF Cardinality(TopCategories(input)) = 1
      THEN output.category = categories[CHOOSE k \in TopCategories(input) : TRUE].name
      ELSE output.category = "Other"

\* ---------------------------------------------------------------------
\* Dates in the browser's time zone.  Local calendar days are numbered from
\* Monday 21 December 2026 (day 0), times are hours since that midnight; the
\* zone gives the UTC offset at each local midnight.

MaxDay == 384

Zones == {"UTC", "America/New_York", "Australia/Sydney"}

\* Date.prototype.getDay: 0 is Sunday
getDay(d) == (d + 1) % 7

\* Date.prototype.getFullYear of a local day
getFullYear(d) == IF d < 11 THEN 2026 ELSE IF d < 376 THEN 2027 ELSE 2028

\* new Date(year, 0, 1): the day number of 1 January
yearStartOf(year) == CASE year = 2026 -> -354 [] year = 2027 -> 11 [] year = 2028 -> 376

\* the hours by which local time is ahead of UTC at the midnight that begins
\* day d: daylight saving runs from 14 March to 7 November 2027 in New York,
\* and until 4 April and again from 3 October 2027 in Sydney
utcOffset(zone, d) ==
  CASE zone = "UTC" -> 0
    [] zone = "America/New_York" -> IF d >= 84 /\ d <= 321 THEN -4 ELSE -5
    [] zone = "Australia/Sydney" -> IF d >= 105 /\ d <= 286 THEN 10 ELSE 11

\* the hours between two local midnights: the difference of two Date values
hoursBetween(zone, from, to) ==
  24 * (to - from) - (utcOffset(zone, to) - utcOffset(zone, from))

Digits == <<"0", "1", "2", "3", "4", "5", "6", "7", "8", "9">>

\* Number.prototype.toString of a natural number
RECURSIVE toString(_)
toString(n) ==
  IF n < 10 THEN <<Digits[n + 1]>> ELSE toString(n \div 10) \o <<Digits[(n % 10) + 1]>>

\* String.prototype.padStart(2, '0')
padStart2(s) == IF Len(s) < 2 THEN <<"0">> \o s ELSE s

\* Math.ceil of hours / 168 + 24 / 168, for a positive number of hours
ceilWeeks(hours) == (hours + 24 + 167) \div 168

\* getWeekNumber of a time t in the zone: midnight of its day, moved to the
\* Thursday of its week, the weeks counted from 1 January of that year
getWeekNumber(t, zone) ==
  LET d0        == Day(t)
      d         == d0 + 4 - (IF getDay(d0) = 0 THEN 7 ELSE getDay(d0))
      yearStart == yearStartOf(getFullYear(d))
      weekNumber == ceilWeeks(hoursBetween(zone, yearStart, d))
  IN  toString(getFullYear(d)) \o <<"-", "W">> \o padStart2(toString(weekNumber))

\* getWeekNumber called on its own (specification SpecWeek)
WeekInputs == [zone : Zones, t : {24 * d + h : d \in 0..MaxDay, h \in {0, 23}}]

WeekInit ==
  /\ AppInit
  /\ input \in WeekInputs
  /\ output = NotRun

CallGetWeekNumber ==
  /\ output = NotRun
  /\ output' = [run |-> TRUE, key |-> getWeekNumber(input.t, input.zone)]
  /\ UNCHANGED <<appVars, input>>

WeekNext == CallGetWeekNumber

SpecWeek == WeekInit /\ [][WeekNext]_vars

\* the week key of every day of every zone
WeekKeyOf == [zone \in Zones, d \in 0..MaxDay |-> getWeekNumber(24 * d, zone)]

\* the Monday of the Monday-to-Sunday week of day d
MondayOf(d) == d - ((d + 7) % 7)

\* C26: getWeekNumber groups by ISO week: another day has the key of the
\* input exactly when it lies in the same Monday-to-Sunday week, and the
\* year in the key is the year of that week's Thursday.
C26_IsoWeekKey ==
  output.run =>
    /\ \A other \in 0..MaxDay :
         (WeekKeyOf[input.zone, other] = output.key)
           <=> (MondayOf(other) = MondayOf(Day(input.t)))
    /\ SubSeq(output.key, 1, 4) = toString(getFullYear(MondayOf(Day(input.t)) + 3))

\* ---------------------------------------------------------------------
\* WeeklyStats: the weekly series of the chart

\* weeks[weekKey] = (weeks[weekKey] || 0) + 1 over the articles from index k
\* on; the object keeps its keys in the order of their insertion
RECURSIVE weeksFrom(_, _, _, _)
weeksFrom(list, k, weeks, zone) ==
  IF k > Len(list) THEN weeks
  ELSE Bind(getWeekNumber(list[k].publicationDate, zone),
            LAMBDA weekKey :
              weeksFrom(list, k + 1,
                        IF \E i \in DOMAIN weeks : weeks[i].key = weekKey
                          THEN [i \in DOMAIN weeks |->
                                  IF weeks[i].key = weekKey
                                    THEN [key |-> weekKey, value |-> weeks[i].value + 1]
                                    ELSE weeks[i]]
                          ELSE Append(weeks, [key |-> weekKey, value |-> 1]),
                        zone))

\* the collation order of the characters of a week key
CharOrder == <<"-", "0", "1", "2", "3", "4", "5", "6", "7", "8", "9", "W">>

CharRank(c) == CHOOSE i \in DOMAIN CharOrder : CharOrder[i] = c

\* a.localeCompare(b) < 0 for two strings of these characters
RECURSIVE localeCompareLess(_, _)
localeCompareLess(a, b) ==
  IF b = <<>> THEN FALSE
  ELSE IF a = <<>> THEN TRUE
  ELSE IF a[1] # b[1] THEN CharRank(a[1]) < CharRank(b[1])
  ELSE localeCompareLess(Tail(a), Tail(b))

\* parseInt of a string of digits
RECURSIVE parseInt(_)
parseInt(s) ==
  IF s = <<>> THEN 0
  ELSE 10 * parseInt(SubSeq(s, 1, Len(s) - 1)) + (CharRank(s[Len(s)]) - 2)

\* formatWeekLabel: weekKey.split('-W'), getDateOfWeek(week, year) = new
\* Date(year, 0, 1 + (week - 1) * 7), shown as month and day: the day of the
\* year and whether the year is a leap year
formatWeekLabel(weekKey) ==
  [dayOfYear |-> 1 + (parseInt(SubSeq(weekKey, 7, Len(weekKey))) - 1) * 7,
   leapYear  |-> parseInt(SubSeq(weekKey, 1, 4)) % 4 = 0]

\* Array.prototype.slice(-12)
sliceLast12(s) == SubSeq(s, IF Len(s) > 12 THEN Len(s) - 11 ELSE 1, Len(s))

\* weeklyData of WeeklyStats in a browser of the zone
weeklyData(list, zone) ==
  Bind(sliceLast12(SortSeq(weeksFrom(list, 1, <<>>, zone),
                           LAMBDA x, y : localeCompareLess(x.key, y.key))),
       LAMBDA entries :
         [i \in DOMAIN entries |->
            [week |-> formatWeekLabel(entries[i].key), count |-> entries[i].value]])

\* WeeklyStats on its own (specification SpecWeekly): the articles, newest
\* first as fetchArticles sorts them, lie `gap` days apart

MaxArticles == 14

NewestDays == {125, 200, 290, 384}

Gaps == {0, 3, 7, 8}

WeeklyInputs == [zone : Zones, newest : NewestDays, gap : Gaps, count : 0..MaxArticles]

WeeklyArticles(in) ==
  [i \in 1..in.count |-> [publicationDate |-> 24 * (in.newest - in.gap * (i - 1)) + 9]]

WeeklyInit ==
  /\ AppInit
  /\ input \in WeeklyInputs
  /\ output = NotRun

CallWeeklyData ==
  /\ output = NotRun
  /\ output' = [run |-> TRUE, weeklyData |-> weeklyData(WeeklyArticles(input), input.zone)]
  /\ UNCHANGED <<appVars, input>>

WeeklyNext == CallWeeklyData

SpecWeekly == WeeklyInit /\ [][WeeklyNext]_vars

\* the Mondays of the weeks in which an article of the input was published
ArticleWeeks(in) == {MondayOf(in.newest - in.gap * (i - 1)) : i \in 1..in.count}

\* the number of articles of the input published in the week of a Monday
ArticlesInWeek(in, monday) ==
  Cardinality({i \in 1..in.count : MondayOf(in.newest - in.gap * (i - 1)) = monday})

\* C25: the weekly series is in the order of the weeks, holds the 12 most
\* recent weeks that have articles (all of them when there are fewer), and
\* the count of each is the number of articles published in that week.
C25_WeeklySeries ==
  output.run =>
    LET weeks == sliceLast12(Ascending(ArticleWeeks(input)))
    IN  /\ Len(output.weeklyData) = Len(weeks)
        /\ \A i \in DOMAIN weeks :
             output.weeklyData[i].count = ArticlesInWeek(input, weeks[i])

\* ---------------------------------------------------------------------
\* The error state while the page stays open (specification SpecLive)

\* C27: no operation resets the error state: once error is not null it is
\* not null after every later step, and in particular when the run that the
\* Retry button started gets its answers and finishes, so that the error
\* view stays on the page.
C27_ErrorNeverReset ==
  [][/\ error # NoError => error' # NoError
     /\ (Finishes("retry") /\ stalled' = stalled) => (error' # NoError /\ ~loading')]_vars

\* the Retry button was clicked: its run is in flight and error is set
C27_Witness ==
  /\ runs["retry"] > 0
  /\ error # NoError
  /\ loading

\* ---------------------------------------------------------------------
\* fetchArticles' body with pages of Google Scholar results (specification
\* SpecScholar): what fetchGoogleScholar returns and what the merge keeps

MaxResults == 2

ScholarElements ==
  { [title     |-> <<"A","I"," ","r","a","d","i","o","l","o","g","y">>,
     authors   |-> <<"D">>,
     abstract  |-> <<"d","e","e","p"," ","l","e","a","r","n","i","n","g">>,
     link      |-> "scholar-1",
     citations |-> 0],
    [title     |-> <<"K","n","e","e"," ","M","R","I">>,
     authors   |-> <<"E">>,
     abstract  |-> <<>>,
     link      |-> "scholar-2",
     citations |-> 3],
    [title     |-> <<>>,
     authors   |-> <<>>,
     abstract  |-> <<>>,
     link      |-> "scholar-3",
     citations |-> 0],
    [title     |-> <<"E","d","i","t","o","r","i","a","l",":"," ","m","a","c","h","i","n","e"," ","l","e","a","r","n","i","n","g"," ","i","n"," ","i","m","a","g","i","n","g">>,
     authors   |-> <<"F">>,
     abstract  |-> <<"r","a","d","i","o","l","o","g","y">>,
     link      |-> "scholar-4",
     citations |-> 12] }

ScholarInputPages ==
  {[ok |-> FALSE]}
    \cup {[ok |-> TRUE, results |-> r] : r \in ListsUpTo(ScholarElements, MaxResults)}

ScholarInputs == [up : DOMAIN AppUpstreams, page : ScholarInputPages]

ScholarInit ==
  /\ AppInit
  /\ input \in ScholarInputs
  /\ output = NotRun

CallFetchGoogleScholar ==
  /\ output = NotRun
  /\ output' = [run      |-> TRUE,
                scholar  |-> fetchGoogleScholar(input.page, now),
                articles |-> fetchOutcome(AppUpstreams[input.up], input.page, now).articles]
  /\ UNCHANGED <<appVars, input>>

ScholarNext == CallFetchGoogleScholar

SpecScholar == ScholarInit /\ [][ScholarNext]_vars

\* C28: fetchGoogleScholar returns an empty list whenever the page has at
\* least one result element, and the article set that fetchArticles builds
\* holds no article with source 'Google Scholar'.
C28_ScholarNeverContributes ==
  output.run =>
    /\ (input.page.ok /\ input.page.results # <<>>) => output.scholar = <<>>
    /\ \A i \in DOMAIN output.articles : ~FromScholar(output.articles[i])

\* a page with two result elements, one of them about AI in radiology,
\* beside PubMed articles: the result holds the PubMed articles alone
C28_Witness ==
  /\ output.run
  /\ input.page.ok
  /\ Len(input.page.results) = 2
  /\ \E k \in DOMAIN input.page.results : input.page.results[k].link = "scholar-1"
  /\ output.scholar = <<>>
  /\ output.articles # <<>>

\* ---------------------------------------------------------------------
\* C29: after every completed update of the articles state (a fetchArticles
\* run, also one that overlaps another, or a cache hit of
\* initializeArticles) the counts in subdomainStats sum to articles.length.
C29_StatsSumToLength ==
  Sum([i \in DOMAIN subdomainStats |-> subdomainStats[i].value],
      DOMAIN subdomainStats) = Len(articles)

\* a run that overlapped another has finished and shows two articles
C29_Witness ==
  /\ lastRun.run
  /\ InFlight > 0
  /\ Len(articles) >= 2
  /\ Len(subdomainStats) >= 1

\* ---------------------------------------------------------------------
\* One refresh a day (specification Spec)

\* the render that followed setLastRefresh has registered a checkAndRefresh
\* holding a lastRefresh of the present calendar day
RefreshedToday ==
  /\ phase = "ready"
  /\ lastRefresh # <<>>
  /\ handlerLastRefresh = lastRefresh
  /\ Day(lastRefresh[1]) = Day(now)

\* C30: once checkAndRefresh has triggered a refresh and the component has
\* re-rendered with the new lastRefresh, further interval ticks and focus
\* events on the same calendar day trigger no additional fetch: no step
\* taken from such a state adds a fetchArticles call made by checkAndRefresh.
C30_OneRefreshPerDay ==
  [][RefreshedToday => ~TickStartsRun]_vars

\* hours after the refresh, on its calendar day, with its run over and the
\* new checkAndRefresh registered
C30_Witness ==
  /\ RefreshedToday
  /\ now > lastRefresh[1]
  /\ localStorage["lastRefresh"] = lastRefresh
  /\ lastRun.run
  /\ InFlight = 0

====
